---------------------------- MODULE Spec2Model ----------------------------
(***************************************************************************)
(* A model of the GDELT news-sentiment pipeline of                         *)
(* src/clean_code/gdelt_vader_news.py (and of the script it was cleaned    *)
(* up from, src/gdelt_vader_news.py): fetch -> merge -> score -> rank ->   *)
(* persist.                                                                *)
(*                                                                         *)
(* Encoding of Python values.                                              *)
(*   - a dict is a TLA+ record/function from its keys to its values;       *)
(*     dict.get(k) is Get(d, k);                                           *)
(*   - str values are TLA+ strings; None and the float NaN are the         *)
(*     reserved strings None and NaN (no article text uses them), and so   *)
(*     are pandas' NaT and a list value; a decimal digit outside ASCII is  *)
(*     the character of OtherDigits at the place of its value (no text of  *)
(*     the model uses these characters otherwise);                         *)
(*   - a JSON value that is not an object (it has no .get) is the record   *)
(*     NotADict;                                                           *)
(*   - a sentiment score is an integer count of 1/10000 (VADER rounds its  *)
(*     compound score to four decimals), so 0.05 is 500 and 1.0 is 10000.  *)
(*                                                                         *)
(* Each entry point of the program has a specification of its own:         *)
(*   SpecFetch  GDELTFetcher.fetch_articles, one step per query vector;    *)
(*   SpecSync   MongoDBSync.sync_articles, one step per upsert, called     *)
(*              again and again with the same records;                     *)
(*   SpecScore  the scoring stage of GDELTSentimentPipeline.run: the       *)
(*              DataFrame of the fetched articles and analyze_dataframe;   *)
(*   SpecNormalize  the normalization stage of run: prepare_dataframe,     *)
(*              with parse_gdelt_time;                                     *)
(*   SpecRank   SentimentReporter.get_top_sentiment_urls;                  *)
(*   Spec       the whole program, started again and again: the main block *)
(*              and run, from the fetch to the ranking, over one store.    *)
(*                                                                         *)
(* The versions of CPython and pandas are not pinned, and the code behaves *)
(* differently with different ones in three places (None in a column of    *)
(* strings, a datetime outside datetime64[ns], a blank in %H): the         *)
(* variable build says which the program runs with, and stays what it is.  *)
(***************************************************************************)
EXTENDS Integers, Sequences, FiniteSets, TLC

VARIABLES
    pc,            \* where the running entry point stands
    i,             \* fetch_articles: number of query vectors handled so far
    all_articles,  \* fetch_articles: the merged list
    seen_urls,     \* fetch_articles: the seen-set
    requests,      \* the queries sent to the GDELT endpoint, in order
    responses,     \* what the endpoint answered to each of them, in order
    fetched,       \* the value fetch_articles returned (<<>> before it returns)
    printed,       \* the lines fetch_articles has printed, in order
    df,            \* the DataFrame at hand, as the list of its rows (dicts)
    store,         \* the MongoDB collection: its documents in insertion order
    synced,        \* sync_articles: number of records upserted so far in this call
    new_count,     \* sync_articles: its counter of inserted documents
    updated_count, \* sync_articles: its counter of updated documents
    last_update,   \* the last update_one: its record, the document it matched, its result
    calls,         \* the sync_articles calls so far: store before, after, result
    client,        \* MongoDBSync.client: "none", "open" or "closed"
    vader,         \* the injected analyzer: the compound score it gives each title
    top_n,         \* get_top_sentiment_urls: its top_n argument
    top_urls,      \* get_top_sentiment_urls: the dict it returned
    runs,          \* the number of times the program was started
    sync_to_mongo, \* run: its sync_to_mongo argument
    mongo,         \* the pipeline's self.mongo: whether it is a MongoDBSync (not None)
    build          \* the interpreter and the pandas the program is installed with

fetch_vars == <<i, all_articles, seen_urls, requests, responses, fetched, printed>>
sync_vars == <<store, synced, new_count, updated_count, last_update, calls, client>>
rank_vars == <<top_n, top_urls>>
run_vars == <<runs, sync_to_mongo, mongo>>
env_vars == <<vader, build>>
vars == <<pc, fetch_vars, df, sync_vars, env_vars, rank_vars, run_vars>>

----------------------------------------------------------------------------
(* Python values *)

None == "<None>"
NaN == "<NaN>"
NotADict == [nondict |-> "oops"]

\* a JSON array of two numbers where a string was expected; pd.isna of a list
\* is an array, and "if" on an array of two raises ValueError
ListValue == "<[1, 2]>"

\* pandas' NaT, the missing value of a datetime column
NaT == "<NaT>"

IsDict(x) == "nondict" \notin DOMAIN x

\* dict.get(k): the value, or None when the key is missing
Get(d, k) == IF k \in DOMAIN d THEN d[k] ELSE None

\* bool(v) of a value that is None or a str
Truthy(v) == v # None /\ v # ""

\* The repository pins neither its interpreter nor its pandas, and two things
\* its code does depend on them:
\*   pandas3     pandas 3.0 or later: a column whose values are strings is a
\*               str column, which stores None as NaN, and a datetime column
\*               holds the years 1 to 9999; before 3.0 the column keeps None,
\*               and a datetime outside 1677..2262 leaves its column a column
\*               of objects;
\*   blank_hour  a CPython whose strptime reads a blank and a digit as %H
\*               (3.13.13 does, 3.13.0 and the versions before it do not).
Builds == [pandas3 : BOOLEAN, blank_hour : BOOLEAN]

\* the builds of an entry point that parses no timestamp, and the build of one
\* that neither parses a timestamp nor stores None in a DataFrame
PandasBuilds == {b \in Builds : ~b.blank_hour}
PlainBuild == [pandas3 |-> FALSE, blank_hour |-> FALSE]

SeqsUpTo(S, n) == UNION {[1..k -> S] : k \in 0..n}

RECURSIVE SumLen(_)
SumLen(ss) == IF ss = <<>> THEN 0 ELSE Len(Head(ss)) + SumLen(Tail(ss))

----------------------------------------------------------------------------
(* Bounds *)

\* articles the endpoint returns in one run, over all query vectors
MaxArticles == 3

\* documents in the collection before the first sync
MaxStored == 2

\* records of the DataFrame handed to sync_articles
MaxRecords == 2

\* successive sync_articles calls
MaxCalls == 2

\* articles handed to the scoring stage
MaxScored == 3

\* rows of the DataFrame handed to get_top_sentiment_urls
MaxRanked == 4

\* the largest top_n asked of get_top_sentiment_urls
MaxTopN == 3

\* articles handed to the normalization stage
MaxNormalized == 2

\* times the program is started
MaxRuns == 2

----------------------------------------------------------------------------
(* GDELTConfig *)

\* get_query_list builds three queries: crypto, macro, geopolitics
NumVectors == 3

get_query_list == <<"crypto", "macro", "geo">>

----------------------------------------------------------------------------
(* What the endpoint may answer *)

ArtA1 == [url |-> "a", title |-> "good"]
ArtA2 == [url |-> "a", title |-> "bad"]
ArtB == [url |-> "b", title |-> "bad"]
ArtEmptyUrl == [url |-> "", title |-> "good"]
ArtNoneUrl == [url |-> None, title |-> "good"]
ArtNoUrl == [title |-> "good"]

\* the items an "articles" array may hold
FetchPool == {ArtA1, ArtA2, ArtB, ArtEmptyUrl, ArtNoneUrl, ArtNoUrl, NotADict}

\* requests.get raised (timeout, connection error) or raise_for_status did (non-2xx)
RequestError == [kind |-> "request_error", data |-> [error |-> "x"]]
\* a 2xx answer whose body is not JSON: response.json() raises ValueError
NotJson == [kind |-> "not_json", data |-> [error |-> "x"]]
\* a 2xx answer with a JSON object that has no "articles" key
NoArticlesKey == [kind |-> "json", data |-> [status |-> "ok"]]

JsonResponse(arts) == [kind |-> "json", data |-> [articles |-> arts]]

\* the answers of at most n articles
ResponsesUpTo(n) ==
    {RequestError, NotJson, NoArticlesKey}
        \cup {JsonResponse(s) : s \in SeqsUpTo(FetchPool, n)}

\* data.get("articles", [])
ArticlesOf(resp) ==
    IF "articles" \in DOMAIN resp.data THEN resp.data.articles ELSE <<>>

Used(rs) == SumLen([k \in 1..Len(rs) |-> ArticlesOf(rs[k])])

----------------------------------------------------------------------------
(* The parts of the state an entry point does not use *)

NoAnalyzer == [none |-> 0]

FetchIdle ==
    /\ i = 0
    /\ all_articles = <<>>
    /\ seen_urls = {}
    /\ requests = <<>>
    /\ responses = <<>>
    /\ fetched = <<>>
    /\ printed = <<>>

RankIdle ==
    /\ top_n = 0
    /\ top_urls = [positive |-> <<>>, negative |-> <<>>]

\* a single call of an entry point, outside a run of the whole program
RunIdle ==
    /\ runs = 0
    /\ sync_to_mongo = FALSE
    /\ mongo = FALSE

----------------------------------------------------------------------------
(* The MongoDB collection and update_one *)

\* The collection is the list of its documents in insertion order, and a
\* document's _id is its place in that list: the code never deletes. A document
\* is the dict of its other fields.

NoDocument == [nothing |-> "x"]

\* (mutant) the filter matches nothing: every update_one inserts
MatchIndexNever(st, url) == 0

\* The document filter={"url": url} selects: the first one whose url field is
\* url, as its place in the collection; 0 when there is none.
MatchIndex(st, url) ==
    LET hits == {n \in 1..Len(st) : Get(st[n], "url") = url}
    IN  IF hits = {} THEN 0 ELSE CHOOSE n \in hits : \A m \in hits : n <= m

\* (mutant) only the fields the document lacks are written
SetFieldsKeepStored(doc, record) ==
    [f \in DOMAIN doc \cup DOMAIN record |->
        IF f \in DOMAIN doc THEN doc[f] ELSE record[f]]

\* (mutant) the document is replaced by the record
SetFieldsReplace(doc, record) == record

\* update={"$set": record}: the record's fields are written into the document,
\* the document's other fields are left as they are.
SetFields(doc, record) ==
    [f \in DOMAIN doc \cup DOMAIN record |->
        IF f \in DOMAIN record THEN record[f] ELSE doc[f]]

\* (mutant) the collection is emptied and the record inserted
UpdateOneIntoEmptied(st, record) ==
    [store |-> <<record>>, matched |-> NoDocument, id |-> 1, upserted_id |-> 1]

\* collection.update_one(filter={"url": record["url"]}, update={"$set": record},
\* upsert=True): the collection after it, the document it matched, and
\* result.upserted_id (the new document's _id, 0 for None when one was matched).
UpdateOne(st, record) ==
    LET n == MatchIndex(st, record.url) IN
    IF n # 0
    THEN [store |-> [st EXCEPT ![n] = SetFields(st[n], record)],
          matched |-> st[n], id |-> n, upserted_id |-> 0]
    ELSE [store |-> Append(st, SetFields([url |-> record.url], record)),
          matched |-> NoDocument, id |-> Len(st) + 1, upserted_id |-> Len(st) + 1]

\* (mutant) every update_one is counted as an update
CountUpsertAsUpdate(result, new, updated) == [new |-> new, updated |-> updated + 1]

\* "if result.upserted_id: new_count += 1 else: updated_count += 1"
CountUpsert(result, new, updated) ==
    IF result.upserted_id # 0
    THEN [new |-> new + 1, updated |-> updated]
    ELSE [new |-> new, updated |-> updated + 1]

----------------------------------------------------------------------------
(* NormalizedRecords and stored documents to sync *)

\* a row of the DataFrame prepare_dataframe returns, as df.to_dict("records")
\* gives it: the eleven columns
Record(url, title, score, label) ==
    [seendate_dt |-> None, sentiment_score |-> score, sentiment_label |-> label,
     title |-> title, domain |-> None, url |-> url, url_mobile |-> None,
     socialimage |-> None, seendate |-> None, language |-> None,
     sourcecountry |-> None]

RecA == Record("a", "good", 4404, "Positive")
RecA2 == Record("a", "bad", -5423, "Negative")
RecB == Record("b", "bad", -5423, "Negative")
RecC == Record("c", "", 0, "Neutral")

RecordPool == {RecA, RecA2, RecB, RecC}

\* Documents found in the collection: rows an earlier run wrote, a document that
\* also has a field outside the eleven columns, and one with fewer fields.
DocAWithSummary == RecA2 @@ [summary |-> "text"]
DocBUrlOnly == [url |-> "b"]

StoredPool == {RecA, RecB, DocAWithSummary, DocBUrlOnly}

----------------------------------------------------------------------------
(* MongoDBSync.sync_articles *)

NoUpdate == [record |-> NoDocument, matched |-> NoDocument, id |-> 0, upserted_id |-> 0]

SyncIdle ==
    /\ store = <<>>
    /\ synced = 0
    /\ new_count = 0
    /\ updated_count = 0
    /\ last_update = NoUpdate
    /\ calls = <<>>
    /\ client = "none"

InitSync ==
    /\ pc = "sync_call"
    /\ store \in SeqsUpTo(StoredPool, MaxStored)
    /\ df \in SeqsUpTo(RecordPool, MaxRecords)
    /\ synced = 0
    /\ new_count = 0
    /\ updated_count = 0
    /\ last_update = NoUpdate
    /\ calls = <<>>
    /\ client = "open"
    /\ FetchIdle
    /\ vader = NoAnalyzer
    /\ build = PlainBuild
    /\ RankIdle
    /\ RunIdle

\* The call: the counters start at 0.
SyncBegin ==
    /\ pc = "sync_call"
    /\ Len(calls) < MaxCalls
    /\ synced' = 0
    /\ new_count' = 0
    /\ updated_count' = 0
    /\ last_update' = NoUpdate
    /\ calls' = Append(calls, [before |-> store, after |-> NoDocument, result |-> <<>>])
    /\ pc' = "sync_loop"
    /\ UNCHANGED <<fetch_vars, df, store, client, env_vars, rank_vars, run_vars>>

\* One iteration of the loop over the records: the upsert and the counting.
SyncUpsert ==
    /\ pc = "sync_loop"
    /\ synced < Len(df)
    /\ LET record == df[synced + 1]
           result == UpdateOne(store, record)
           counts == CountUpsert(result, new_count, updated_count)
       IN  /\ store' = result.store
           /\ new_count' = counts.new
           /\ updated_count' = counts.updated
           /\ last_update' = [record |-> record, matched |-> result.matched,
                              id |-> result.id, upserted_id |-> result.upserted_id]
    /\ synced' = synced + 1
    /\ UNCHANGED <<pc, fetch_vars, df, calls, client, env_vars, rank_vars, run_vars>>

\* After the loop: (new_count, updated_count) is returned.
SyncReturn ==
    /\ pc = "sync_loop"
    /\ synced >= Len(df)
    /\ calls' = [calls EXCEPT ![Len(calls)] =
                    [before |-> @.before, after |-> store,
                     result |-> <<new_count, updated_count>>]]
    /\ pc' = "sync_returned"
    /\ UNCHANGED <<fetch_vars, df, store, synced, new_count, updated_count, last_update,
                   client, env_vars, rank_vars, run_vars>>

\* The caller calls sync_articles again, with the same DataFrame.
SyncAgain ==
    /\ pc = "sync_returned"
    /\ pc' = "sync_call"
    /\ UNCHANGED <<fetch_vars, df, sync_vars, env_vars, rank_vars, run_vars>>

NextSync == SyncBegin \/ SyncUpsert \/ SyncReturn \/ SyncAgain

SpecSync == InitSync /\ [][NextSync]_vars

----------------------------------------------------------------------------
(* GDELTFetcher.fetch_articles *)

\* (mutant) the seen-set is not consulted: every article with a url is appended
KeepArticleNoSeenCheck(art, all, seen) ==
    LET url == Get(art, "url") IN
    IF Truthy(url)
    THEN [all |-> Append(all, art), seen |-> seen \cup {url}]
    ELSE [all |-> all, seen |-> seen]

\* (mutant) the url is not tested: every article not seen yet is appended
KeepArticleAnyUrl(art, all, seen) ==
    LET url == Get(art, "url") IN
    IF url \notin seen
    THEN [all |-> Append(all, art), seen |-> seen \cup {url}]
    ELSE [all |-> all, seen |-> seen]

\* One article of the deduplication loop: the merged list and the seen-set after it.
KeepArticle(art, all, seen) ==
    LET url == Get(art, "url") IN
    IF Truthy(url) /\ url \notin seen
    THEN [all |-> Append(all, art), seen |-> seen \cup {url}]
    ELSE [all |-> all, seen |-> seen]

\* The deduplication loop over one vector's articles. An item that is no dict
\* makes art.get raise: the loop stops there (ok = FALSE), and what it has
\* appended and marked seen so far stays.
RECURSIVE Dedup(_, _, _)
Dedup(items, all, seen) ==
    IF items = <<>> THEN [all |-> all, seen |-> seen, ok |-> TRUE]
    ELSE IF ~IsDict(Head(items)) THEN [all |-> all, seen |-> seen, ok |-> FALSE]
    ELSE LET next == KeepArticle(Head(items), all, seen)
         IN  Dedup(Tail(items), next.all, next.seen)

\* One iteration of the loop over the query vectors, given the endpoint's answer.
\* Every failure is caught inside the iteration and the loop goes on.
HandleVector(resp, all, seen) ==
    IF resp.kind = "json"
    THEN Dedup(ArticlesOf(resp), all, seen)
    ELSE [all |-> all, seen |-> seen, ok |-> FALSE]

\* (mutant) a failed vector is requested again
NextVectorRetry(out, n) == IF out.ok THEN n + 1 ELSE n

\* (mutant) a failed vector ends the loop ("break" for "continue")
NextVectorBreak(out, n) == IF out.ok THEN n + 1 ELSE NumVectors

\* Both except branches end in "continue": whatever the outcome of a vector's
\* iteration, the loop goes on with the next vector.
NextVector(out, n) == n + 1

\* the line printed on entry
FetchingLine == [msg |-> "fetching"]

\* The lines one iteration prints for vector n, given the endpoint's answer, the
\* outcome of its handling and the length of the merged list before it.
VectorLines(n, resp, out, before) ==
    <<[msg |-> "running", vector |-> n]>> \o
    (IF resp.kind = "not_json"
     THEN <<[msg |-> "api_error", vector |-> n], [msg |-> "raw_response", vector |-> n]>>
     ELSE IF ~out.ok
     THEN <<[msg |-> "failed", vector |-> n]>>
     ELSE <<[msg |-> "found", vector |-> n, articles |-> Len(ArticlesOf(resp)),
             unique |-> Len(out.all) - before]>>)

\* the line printed before returning
TotalLine(all) ==
    IF all = <<>> THEN [msg |-> "none"] ELSE [msg |-> "total", unique |-> Len(all)]

InitFetch ==
    /\ pc = "fetch_loop"
    /\ i = 0
    /\ all_articles = <<>>
    /\ seen_urls = {}
    /\ requests = <<>>
    /\ responses = <<>>
    /\ fetched = <<>>
    /\ printed = <<FetchingLine>>
    /\ df = <<>>
    /\ SyncIdle
    /\ vader = NoAnalyzer
    /\ build = PlainBuild
    /\ RankIdle
    /\ RunIdle

\* what the endpoint may answer a query of a run of the whole program
RunArtA == [url |-> "a", title |-> "t1", seendate |-> "20251128T101500Z"]
RunArtA2 == [url |-> "a", title |-> "t2", seendate |-> ""]
RunArtB == [url |-> "b", title |-> "t2"]
RunArtNoTitle == [url |-> "c", seendate |-> "20251128T101500Z"]
RunArtListDate == [url |-> "d", title |-> "t1", seendate |-> ListValue]
RunArtNoUrl == [title |-> "t1"]
RunArtNoneUrl == [url |-> None, title |-> "t1"]
RunArtEmptyUrl == [url |-> "", title |-> "t2"]

RunResponses ==
    {RequestError, NotJson, NoArticlesKey,
     JsonResponse(<<RunArtA>>), JsonResponse(<<RunArtA2, RunArtB>>),
     JsonResponse(<<RunArtB, NotADict>>),
     JsonResponse(<<RunArtNoTitle>>), JsonResponse(<<RunArtListDate>>),
     JsonResponse(<<RunArtNoUrl, RunArtNoneUrl, RunArtEmptyUrl>>)}

\* What the endpoint may answer the next request: in a lone call of
\* fetch_articles any answer within the bound on the articles, in a run of the
\* whole program one of RunResponses.
Answers ==
    IF runs = 0 THEN ResponsesUpTo(MaxArticles - Used(responses)) ELSE RunResponses

\* One iteration: the request for the next vector and the handling of its answer.
FetchVector ==
    /\ pc = "fetch_loop"
    /\ i < NumVectors
    /\ \E resp \in Answers :
         LET out == HandleVector(resp, all_articles, seen_urls) IN
         /\ requests' = Append(requests, get_query_list[i + 1])
         /\ responses' = Append(responses, resp)
         /\ all_articles' = out.all
         /\ seen_urls' = out.seen
         /\ i' = NextVector(out, i)
         /\ printed' = printed \o VectorLines(i + 1, resp, out, Len(all_articles))
    /\ UNCHANGED <<pc, fetched, df, sync_vars, env_vars, rank_vars, run_vars>>

\* After the loop: the merged list is returned (an empty one too).
FetchReturn ==
    /\ pc = "fetch_loop"
    /\ i >= NumVectors
    /\ fetched' = all_articles
    /\ printed' = Append(printed, TotalLine(all_articles))
    /\ pc' = "run_fetched"
    /\ UNCHANGED <<i, all_articles, seen_urls, requests, responses, df, sync_vars, env_vars, rank_vars, run_vars>>

NextFetch == FetchVector \/ FetchReturn

SpecFetch == InitFetch /\ [][NextFetch]_vars

----------------------------------------------------------------------------
(* SentimentAnalyzer *)

\* 0.05 and -0.05, in 1/10000
PosThreshold == 500
NegThreshold == -500

\* the range of VADER's compound score, -1.0 to 1.0, in 1/10000
MaxCompound == 10000

\* (mutant) the thresholds are exclusive
get_sentiment_label_strict(score) ==
    IF score > PosThreshold THEN "Positive"
    ELSE IF score < NegThreshold THEN "Negative"
    ELSE "Neutral"

get_sentiment_label(score) ==
    IF score >= PosThreshold THEN "Positive"
    ELSE IF score <= NegThreshold THEN "Negative"
    ELSE "Neutral"

\* (mutant) the score is returned in percent
get_sentiment_score_percent(title, analyzer) ==
    IF ~Truthy(title) THEN [ok |-> TRUE, value |-> 0]
    ELSE IF title = NaN THEN [ok |-> FALSE, value |-> 0]
    ELSE [ok |-> TRUE, value |-> 100 * analyzer[title]]

\* get_sentiment_score(title): 0 for a title that is falsy (None, ""); otherwise
\* the analyzer's compound score. NaN, which a DataFrame holds where a dict had
\* no title, is a float and truthy: the analyzer is called with it and raises
\* (it takes str only). ok = FALSE stands for the exception.
get_sentiment_score(title, analyzer) ==
    IF ~Truthy(title) THEN [ok |-> TRUE, value |-> 0]
    ELSE IF title = NaN THEN [ok |-> FALSE, value |-> 0]
    ELSE [ok |-> TRUE, value |-> analyzer[title]]

\* pd.DataFrame(list of dicts): the columns are the keys of all the dicts; a row
\* has NaN where its dict has no such key. A column left with None and NaN only
\* is a float column, all NaN. With pandas 3 (pandas3) a column that has a
\* string, and besides strings only None and NaN, is a str column: its None is
\* stored as NaN. Before pandas 3 it is a column of objects that keeps None.
Columns(dicts) == UNION {DOMAIN dicts[n] : n \in 1..Len(dicts)}

\* whether a cell holds a Python str
IsStr(v) == v \notin {None, NaN, NaT, ListValue}

DataFrame(dicts, pandas3) ==
    LET cell(n, c) == IF c \in DOMAIN dicts[n] THEN dicts[n][c] ELSE NaN
        floats(c) == /\ \E n \in 1..Len(dicts) : cell(n, c) = NaN
                     /\ \A n \in 1..Len(dicts) : cell(n, c) \in {NaN, None}
        strs(c) == /\ pandas3
                   /\ \E n \in 1..Len(dicts) : IsStr(cell(n, c))
                   /\ \A n \in 1..Len(dicts) : cell(n, c) # ListValue
    IN  [n \in 1..Len(dicts) |->
            [c \in Columns(dicts) |->
                IF floats(c) \/ (strs(c) /\ cell(n, c) = None) THEN NaN ELSE cell(n, c)]]

HasColumn(frame, c) == \A n \in 1..Len(frame) : c \in DOMAIN frame[n]

\* df[c] = values: the column is added, or overwritten
WithColumn(frame, c, values) ==
    [n \in 1..Len(frame) |->
        [d \in DOMAIN frame[n] \cup {c} |-> IF d = c THEN values[n] ELSE frame[n][d]]]

\* analyze_dataframe: whether it returns (it raises when the frame has no title
\* column, KeyError, or when scoring a title raises), and the frame it returns.
analyze_dataframe(frame, analyzer) ==
    IF frame = <<>> \/ ~HasColumn(frame, "title") THEN [ok |-> FALSE, df |-> frame]
    ELSE LET scores == [n \in 1..Len(frame) |->
                           get_sentiment_score(frame[n].title, analyzer)]
         IN  IF \E n \in 1..Len(frame) : ~scores[n].ok
             THEN [ok |-> FALSE, df |-> frame]
             ELSE LET scored == WithColumn(frame, "sentiment_score",
                                           [n \in 1..Len(frame) |-> scores[n].value])
                  IN  [ok |-> TRUE,
                       df |-> WithColumn(scored, "sentiment_label",
                                  [n \in 1..Len(frame) |->
                                      get_sentiment_label(scored[n].sentiment_score)])]

----------------------------------------------------------------------------
(* The scoring stage of GDELTSentimentPipeline.run *)

\* the urls of the merged list are distinct and non-empty: the n-th is UrlNames[n]
UrlNames == <<"u1", "u2", "u3", "u4", "u5", "u6", "u7", "u8">>

\* what an article may have for a title: a headline, "", None, or no title key
NoKey == "<no key>"
TitleChoices == {"t1", "t2", "", None, NoKey}

Article(url, title) ==
    IF title = NoKey THEN [url |-> url] ELSE [url |-> url, title |-> title]

ScoreInputs ==
    UNION {{[n \in 1..len |-> Article(UrlNames[n], titles[n])] :
               titles \in [1..len -> TitleChoices]} : len \in 0..MaxScored}

\* the scores an analyzer may give a headline: the ends of the range, the two
\* thresholds and their neighbours
ScoreSamples ==
    {-MaxCompound, NegThreshold - 1, NegThreshold, NegThreshold + 1, 0,
     PosThreshold - 1, PosThreshold, PosThreshold + 1, MaxCompound}

Analyzers == [{"t1", "t2"} -> ScoreSamples]

InitScore ==
    /\ pc = "run_fetched"
    /\ fetched \in ScoreInputs
    /\ vader \in Analyzers
    /\ build \in PandasBuilds
    /\ df = <<>>
    /\ i = 0
    /\ all_articles = <<>>
    /\ seen_urls = {}
    /\ requests = <<>>
    /\ responses = <<>>
    /\ printed = <<>>
    /\ SyncIdle
    /\ RankIdle
    /\ RunIdle

\* "if not articles: return pd.DataFrame()"
RunReturnEmpty ==
    /\ pc = "run_fetched"
    /\ fetched = <<>>
    /\ df' = <<>>
    /\ pc' = "run_returned"
    /\ UNCHANGED <<fetch_vars, sync_vars, env_vars, rank_vars, run_vars>>

\* "df = pd.DataFrame(articles)"
RunDataFrame ==
    /\ pc = "run_fetched"
    /\ fetched # <<>>
    /\ df' = DataFrame(fetched, build.pandas3)
    /\ pc' = "run_frame"
    /\ UNCHANGED <<fetch_vars, sync_vars, env_vars, rank_vars, run_vars>>

\* "df = self.analyzer.analyze_dataframe(df)": it returns, or its exception
\* leaves run, which has no handler.
RunAnalyze ==
    /\ pc = "run_frame"
    /\ LET out == analyze_dataframe(df, vader) IN
         \/ /\ out.ok
            /\ df' = out.df
            /\ pc' = "run_analyzed"
         \/ /\ ~out.ok
            /\ df' = df
            /\ pc' = "run_raised"
    /\ UNCHANGED <<fetch_vars, sync_vars, env_vars, rank_vars, run_vars>>

NextScore == RunReturnEmpty \/ RunDataFrame \/ RunAnalyze

SpecScore == InitScore /\ [][NextScore]_vars

----------------------------------------------------------------------------
(* SentimentReporter.get_top_sentiment_urls *)

ScoreOf(row) == row.sentiment_score

\* (mutant) the two directions are swapped
InOrderSwapped(a, b, ascending) == IF ascending THEN a >= b ELSE a <= b

\* whether score a may stand before score b in a sort of the given direction
InOrder(a, b, ascending) == IF ascending THEN a <= b ELSE a >= b

\* the orders of the rows (as lists of row numbers) that are sorted by score
SortedOrders(frame, ascending) ==
    {p \in [1..Len(frame) -> 1..Len(frame)] :
        /\ \A a, b \in 1..Len(frame) : a # b => p[a] # p[b]
        /\ \A a, b \in 1..Len(frame) :
               a < b => InOrder(ScoreOf(frame[p[a]]), ScoreOf(frame[p[b]]), ascending)}

\* (mutant) among equal scores the later row comes first (keep="last")
KeepLast(frame, orders) ==
    {p \in orders :
        \A a, b \in 1..Len(frame) :
            (a < b /\ ScoreOf(frame[p[a]]) = ScoreOf(frame[p[b]])) => p[a] > p[b]}

\* keep="first" with the stable sort of the fast path: among equal scores the
\* earlier row comes first
KeepFirst(frame, orders) ==
    {p \in orders :
        \A a, b \in 1..Len(frame) :
            (a < b /\ ScoreOf(frame[p[a]]) = ScoreOf(frame[p[b]])) => p[a] < p[b]}

\* Series.nlargest / nsmallest (pandas' SelectNSeries.compute), as the set of
\* the results it may give, each a list of row numbers:
\*   n <= 0: nothing;
\*   n >= len: "the slow method", sort_values(ascending).head(n), whose default
\*     sort is numpy's quicksort: not stable, so equal scores may come out in any
\*     order;
\*   otherwise: the n first rows of the stable sort.
SelectN(frame, n, ascending) ==
    IF n <= 0 THEN {<<>>}
    ELSE IF n >= Len(frame) THEN SortedOrders(frame, ascending)
    ELSE {SubSeq(p, 1, n) : p \in KeepFirst(frame, SortedOrders(frame, ascending))}

nlargest(frame, n) == SelectN(frame, n, FALSE)
nsmallest(frame, n) == SelectN(frame, n, TRUE)

\* ['url'].tolist() of the selected rows
UrlList(frame, rows) == [a \in 1..Len(rows) |-> frame[rows[a]].url]

\* df.empty or 'sentiment_score' not in df.columns
NothingToRank(frame) == frame = <<>> \/ ~HasColumn(frame, "sentiment_score")

\* the frames handed to get_top_sentiment_urls: rows of distinct urls with a
\* score each, and the frame of two articles that were never scored
RankScores == {NegThreshold, 0, PosThreshold}

RankInputs ==
    {DataFrame(<<Article("u1", "t1"), Article("u2", "t2")>>, PlainBuild.pandas3)} \cup
    UNION {{[n \in 1..len |->
                Record(UrlNames[n], "t1", scores[n], get_sentiment_label(scores[n]))] :
               scores \in [1..len -> RankScores]} : len \in 0..MaxRanked}

InitRank ==
    /\ pc = "rank_call"
    /\ df \in RankInputs
    /\ top_n \in 0..MaxTopN
    /\ top_urls = [positive |-> <<>>, negative |-> <<>>]
    /\ FetchIdle
    /\ SyncIdle
    /\ vader = NoAnalyzer
    /\ build = PlainBuild
    /\ RunIdle

\* the safety check: an empty frame, or one without scores, gives two empty lists
GetTopOfNothing ==
    /\ pc = "rank_call"
    /\ NothingToRank(df)
    /\ top_urls' = [positive |-> <<>>, negative |-> <<>>]
    /\ pc' = "rank_returned"
    /\ UNCHANGED <<fetch_vars, df, sync_vars, env_vars, top_n, run_vars>>

\* nlargest and nsmallest on sentiment_score, and the urls of what they select
GetTopSentimentUrls ==
    /\ pc = "rank_call"
    /\ ~NothingToRank(df)
    /\ \E top_positive \in nlargest(df, top_n), top_negative \in nsmallest(df, top_n) :
         top_urls' = [positive |-> UrlList(df, top_positive),
                      negative |-> UrlList(df, top_negative)]
    /\ pc' = "rank_returned"
    /\ UNCHANGED <<fetch_vars, df, sync_vars, env_vars, top_n, run_vars>>

NextRank == GetTopOfNothing \/ GetTopSentimentUrls

SpecRank == InitRank /\ [][NextRank]_vars

----------------------------------------------------------------------------
(* DataProcessor.parse_gdelt_time *)

\* A str is a TLA+ string; its k-th character is At(s, k) ("" past its end).
\* the one element of a set of one
Only(S) == CHOOSE x \in S : TRUE

At(s, k) == IF 1 <= k /\ k <= Len(s) THEN SubSeq(s, k, k) ELSE ""

\* the ASCII digits: what the classes of the pattern ([0-2], [1-9], ...) match
\* and what str() of a number is written with
Digits == "0123456789"

\* The decimal digits outside ASCII (category Nd: fullwidth, Arabic-Indic, ...)
\* of the values 0 to 9, in the characters that stand for them in the model.
OtherDigits == ")!@#$%^&*("

AsciiDigitSet == {At(Digits, k) : k \in 1..Len(Digits)}

\* what \d of a str pattern matches: every decimal digit, of ASCII or not
DigitSet == AsciiDigitSet \cup {At(OtherDigits, k) : k \in 1..Len(OtherDigits)}

IsDigit(c) == c \in DigitSet

\* int() of one decimal digit
DigitValues ==
    [c \in DigitSet |->
        (CHOOSE k \in 1..Len(Digits) : At(Digits, k) = c \/ At(OtherDigits, k) = c) - 1]

DigitValue(c) == DigitValues[c]

\* int(s) of a string of digits
RECURSIVE Number(_)
Number(s) ==
    IF Len(s) = 0 THEN 0
    ELSE 10 * Number(SubSeq(s, 1, Len(s) - 1)) + DigitValue(At(s, Len(s)))

\* a class [lo-hi] of the pattern: ASCII digits only
InRange(c, lo, hi) == c \in AsciiDigitSet /\ lo <= DigitValue(c) /\ DigitValue(c) <= hi

\* The regular expression strptime compiles "%Y%m%dT%H%M%SZ" to (it is matched
\* ignoring case, from the start of the string):
\*   (\d\d\d\d)(1[0-2]|0[1-9]|[1-9])(3[0-1]|[1-2]\d|0[1-9]|[1-9]| [1-9])T
\*   (2[0-3]|[0-1]\d|\d)([0-5]\d|\d)(6[0-1]|[0-5]\d|\d)Z
\* Each of the following says whether the n characters of s from place p on
\* match one directive.
YearAt(s, p) == \A k \in 0..3 : IsDigit(At(s, p + k))

MonthAt(s, p, n) ==
    IF n = 2
    THEN \/ At(s, p) = "1" /\ InRange(At(s, p + 1), 0, 2)
         \/ At(s, p) = "0" /\ InRange(At(s, p + 1), 1, 9)
    ELSE InRange(At(s, p), 1, 9)

DayAt(s, p, n) ==
    IF n = 2
    THEN \/ At(s, p) = "3" /\ InRange(At(s, p + 1), 0, 1)
         \/ InRange(At(s, p), 1, 2) /\ IsDigit(At(s, p + 1))
         \/ At(s, p) = "0" /\ InRange(At(s, p + 1), 1, 9)
         \/ At(s, p) = " " /\ InRange(At(s, p + 1), 1, 9)
    ELSE InRange(At(s, p), 1, 9)

\* %H: "2[0-3]|[0-1]\d|\d", and with blank_hour "| \d" after them
HourAt(s, p, n, blank_hour) ==
    IF n = 2
    THEN \/ At(s, p) = "2" /\ InRange(At(s, p + 1), 0, 3)
         \/ InRange(At(s, p), 0, 1) /\ IsDigit(At(s, p + 1))
         \/ blank_hour /\ At(s, p) = " " /\ IsDigit(At(s, p + 1))
    ELSE IsDigit(At(s, p))

MinuteAt(s, p, n) ==
    IF n = 2
    THEN InRange(At(s, p), 0, 5) /\ IsDigit(At(s, p + 1))
    ELSE IsDigit(At(s, p))

SecondAt(s, p, n) ==
    IF n = 2
    THEN \/ At(s, p) = "6" /\ InRange(At(s, p + 1), 0, 1)
         \/ InRange(At(s, p), 0, 5) /\ IsDigit(At(s, p + 1))
    ELSE IsDigit(At(s, p))

\* where each directive starts, given the lengths w of month, day, hour, minute
\* and second
MonthFrom == 5
DayFrom(w) == MonthFrom + w[1]
HourFrom(w) == DayFrom(w) + w[2] + 1
MinuteFrom(w) == HourFrom(w) + w[3]
SecondFrom(w) == MinuteFrom(w) + w[4]
MatchEnd(w) == SecondFrom(w) + w[5]

\* whether the n characters of s from place p on match directive g (1 month,
\* 2 day, 3 hour, 4 minute, 5 second)
DirectiveAt(s, p, g, n, blank_hour) ==
    CASE g = 1 -> MonthAt(s, p, n)
      [] g = 2 -> DayAt(s, p, n)
      [] g = 3 -> HourAt(s, p, n, blank_hour)
      [] g = 4 -> MinuteAt(s, p, n)
      [] g = 5 -> SecondAt(s, p, n)

NoMatch == [ok |-> FALSE, w |-> <<>>]

\* the lengths the five directives may match with
Widths == [1..5 -> {1, 2}]

\* where directive g starts, given the lengths w
DirectiveFrom(w, g) ==
    CASE g = 1 -> MonthFrom
      [] g = 2 -> DayFrom(w)
      [] g = 3 -> HourFrom(w)
      [] g = 4 -> MinuteFrom(w)
      [] g = 5 -> SecondFrom(w)

\* whether s matches the expression with its directives of the lengths w:
\* after the day stands "T", after the second "Z".
MatchesWith(s, w, blank_hour) ==
    /\ At(s, HourFrom(w) - 1) \in {"T", "t"}
    /\ At(s, MatchEnd(w)) \in {"Z", "z"}
    /\ \A g \in 1..5 : DirectiveAt(s, DirectiveFrom(w, g), g, w[g], blank_hour)

\* The engine tries the two-character alternatives of a directive before its
\* one-character one, and falls back when the rest does not match: of two
\* ways to match it finds the one with the longer directive at the first place
\* they differ.
TriedBefore(w, v) ==
    \/ w = v
    \/ \E g \in 1..5 : /\ w[g] > v[g]
                       /\ \A k \in 1..(g - 1) : w[k] = v[k]

\* re.match of the whole expression on s; w lists the lengths the directives
\* matched with.
Match(s, blank_hour) ==
    IF ~YearAt(s, 1) THEN NoMatch
    ELSE Only({IF ways = {} THEN NoMatch
               ELSE [ok |-> TRUE, w |-> CHOOSE w \in ways : \A v \in ways : TriedBefore(w, v)] :
                  ways \in {{w \in Widths : MatchesWith(s, w, blank_hour)}}})

\* the digits of a directive, a leading blank (of the day, of the hour) left out
Field(s, p, n) ==
    Number(IF At(s, p) = " " THEN SubSeq(s, p + 1, p + n - 1) ELSE SubSeq(s, p, p + n - 1))

IsLeap(y) == y % 4 = 0 /\ (y % 100 # 0 \/ y % 400 = 0)

DaysIn(y, m) ==
    IF m = 2 THEN (IF IsLeap(y) THEN 29 ELSE 28)
    ELSE IF m \in {4, 6, 9, 11} THEN 30 ELSE 31

Two(n) == At(Digits, (n \div 10) + 1) \o At(Digits, (n % 10) + 1)

\* a datetime with tzinfo=timezone.utc, written as str() writes it
UtcTimestamp(y, mo, d, h, mi, sec) ==
    Two(y \div 100) \o Two(y % 100) \o "-" \o Two(mo) \o "-" \o Two(d) \o " "
        \o Two(h) \o ":" \o Two(mi) \o ":" \o Two(sec) \o "+00:00"

\* the numbers of the six groups of a match with the lengths w
GroupsOf(t, w) ==
    <<Number(SubSeq(t, 1, 4)), Field(t, MonthFrom, w[1]), Field(t, DayFrom(w), w[2]),
      Field(t, HourFrom(w), w[3]), Field(t, MinuteFrom(w), w[4]),
      Field(t, SecondFrom(w), w[5])>>

\* datetime(y, mo, d, h, mi, sec, tzinfo=utc) of the numbers strptime has
\* read: None stands for the ValueError of a year 0, a day the month does not
\* have, a second 60 or 61.
MakeDatetime(g) ==
    IF g[1] < 1 \/ g[3] > DaysIn(g[1], g[2]) \/ g[6] > 59 THEN None
    ELSE UtcTimestamp(g[1], g[2], g[3], g[4], g[5], g[6])

\* datetime.strptime(t, "%Y%m%dT%H%M%SZ").replace(tzinfo=timezone.utc), with the
\* bare "except: return None" around it. It raises, and None is returned, when
\* the expression does not match, when text is left after the match, and when
\* the fields make no datetime. (The match and the groups are each computed
\* once, as the values of bound variables.)
strptime_utc(t, blank_hour) ==
    Only({IF ~found.ok THEN None
          ELSE IF MatchEnd(found.w) # Len(t) THEN None
          ELSE Only({MakeDatetime(g) : g \in {GroupsOf(t, found.w)}}) :
             found \in {Match(t, blank_hour)}})

\* pd.isna(t) of a scalar
isna(t) == t \in {None, NaN, NaT}

\* parse_gdelt_time(t): ok = FALSE stands for an exception that leaves it (the
\* test of pd.isna(t) is outside the try).
parse_gdelt_time(t, blank_hour) ==
    IF t = ListValue THEN [ok |-> FALSE, value |-> None]
    ELSE IF isna(t) \/ t = "" THEN [ok |-> TRUE, value |-> None]
    ELSE [ok |-> TRUE, value |-> strptime_utc(t, blank_hour)]

----------------------------------------------------------------------------
(* DataProcessor.prepare_dataframe *)

desired_columns ==
    <<"seendate_dt", "sentiment_score", "sentiment_label", "title", "domain", "url",
      "url_mobile", "socialimage", "seendate", "language", "sourcecountry">>

DesiredSet == {desired_columns[k] : k \in 1..Len(desired_columns)}

\* the first and the last whole second a datetime64[ns] holds (pd.Timestamp.min
\* and pd.Timestamp.max), as year, month, day, hour, minute, second
TimestampMin == <<1677, 9, 21, 0, 12, 44>>
TimestampMax == <<2262, 4, 11, 23, 47, 16>>

\* the six numbers of a timestamp as UtcTimestamp writes it
NumbersOf(v) ==
    <<Number(SubSeq(v, 1, 4)), Number(SubSeq(v, 6, 7)), Number(SubSeq(v, 9, 10)),
      Number(SubSeq(v, 12, 13)), Number(SubSeq(v, 15, 16)), Number(SubSeq(v, 18, 19))>>

Earlier(a, b) == \E k \in 1..6 : a[k] < b[k] /\ \A j \in 1..(k - 1) : a[j] = b[j]

\* whether a datetime is outside what datetime64[ns] holds
OutOfBounds(v) ==
    Only({Earlier(g, TimestampMin) \/ Earlier(TimestampMax, g) : g \in {NumbersOf(v)}})

\* The column Series.apply(parse_gdelt_time) gives: when some row has a
\* timestamp the column is a datetime column, and the rows without one hold
\* NaT; when no row has one it is a column of None. Before pandas 3 the
\* datetime column is datetime64[ns], and a timestamp it does not hold leaves
\* the column a column of objects, None kept.
DatetimeColumn(values, pandas3) ==
    IF \A n \in 1..Len(values) : values[n] = None THEN values
    ELSE IF ~pandas3 /\ \E n \in 1..Len(values) : values[n] # None /\ OutOfBounds(values[n])
         THEN values
    ELSE [n \in 1..Len(values) |-> IF values[n] = None THEN NaT ELSE values[n]]

\* (mutant) the frame is returned with the columns it has
SelectDesiredKeepAll(frame) == frame

\* df[desired_columns], after every desired column the frame lacks was added
\* with None
SelectDesired(frame) ==
    [n \in 1..Len(frame) |->
        [c \in DesiredSet |-> IF c \in DOMAIN frame[n] THEN frame[n][c] ELSE None]]

\* prepare_dataframe: whether it returns (parse_gdelt_time may raise), and the
\* frame it returns.
prepare_dataframe(frame, b) ==
    IF HasColumn(frame, "seendate")
    THEN LET parsed == [n \in 1..Len(frame) |->
                           parse_gdelt_time(frame[n].seendate, b.blank_hour)]
         IN  IF \E n \in 1..Len(frame) : ~parsed[n].ok
             THEN [ok |-> FALSE, df |-> frame]
             ELSE [ok |-> TRUE,
                   df |-> SelectDesired(
                              WithColumn(frame, "seendate_dt",
                                  DatetimeColumn([n \in 1..Len(frame) |-> parsed[n].value],
                                                 b.pandas3)))]
    ELSE [ok |-> TRUE, df |-> SelectDesired(frame)]

----------------------------------------------------------------------------
(* The normalization stage of GDELTSentimentPipeline.run *)

\* what an article may have for a seendate, besides having none
SeenDatePool ==
    {"20251128T101500Z", "", None, "garbage", "20251128T1015Z", "202511 8T101500Z",
     "20251128t101500z", "20250229T101500Z", "20251128T101500ZZ", ListValue,
     "@)@%1128T101500Z", "202511*T101500Z", "20251128T 91500Z", "99991231T235959Z"}

\* the other fields an article may carry: one of the schema, one outside it
ExtraFields == {[domain |-> "example.com"], [tone |-> "x"]}

NormArticle(url, seendate, extra) ==
    (IF seendate = NoKey THEN [url |-> url, title |-> "t1"]
     ELSE [url |-> url, title |-> "t1", seendate |-> seendate]) @@ extra

NormInputs ==
    UNION {{[n \in 1..len |-> NormArticle(UrlNames[n], dates[n], extras[n])] :
               dates \in [1..len -> SeenDatePool \cup {NoKey}],
               extras \in [1..len -> ExtraFields]} : len \in 1..MaxNormalized}

NormAnalyzer == [t \in {"t1", "t2"} |-> IF t = "t1" THEN PosThreshold ELSE NegThreshold]

InitNormalize ==
    /\ pc = "run_analyzed"
    /\ fetched \in NormInputs
    /\ vader = NormAnalyzer
    /\ build \in Builds
    /\ df = analyze_dataframe(DataFrame(fetched, build.pandas3), vader).df
    /\ i = 0
    /\ all_articles = <<>>
    /\ seen_urls = {}
    /\ requests = <<>>
    /\ responses = <<>>
    /\ printed = <<>>
    /\ SyncIdle
    /\ RankIdle
    /\ RunIdle

\* "df_final = self.processor.prepare_dataframe(df)": it returns, or its
\* exception leaves run, which has no handler.
RunPrepare ==
    /\ pc = "run_analyzed"
    /\ LET out == prepare_dataframe(df, build) IN
         \/ /\ out.ok
            /\ df' = out.df
            /\ pc' = "run_prepared"
         \/ /\ ~out.ok
            /\ df' = df
            /\ pc' = "run_raised"
    /\ UNCHANGED <<fetch_vars, sync_vars, env_vars, rank_vars, run_vars>>

NextNormalize == RunPrepare

SpecNormalize == InitNormalize /\ [][NextNormalize]_vars

----------------------------------------------------------------------------
(* The program: the main block and GDELTSentimentPipeline.run *)

\* top_n of get_top_sentiment_urls when the caller gives none (the main block)
DefaultTopN == 3

\* the collection a first run may find: empty, or with a document for url "a"
\* that has a field of its own
InitialStores == {<<>>, <<DocAWithSummary>>}

InitMain ==
    /\ pc = "main_idle"
    /\ runs = 0
    /\ sync_to_mongo = FALSE
    /\ mongo = FALSE
    /\ store \in InitialStores
    /\ vader = NormAnalyzer
    /\ build \in Builds
    /\ df = <<>>
    /\ synced = 0
    /\ new_count = 0
    /\ updated_count = 0
    /\ last_update = NoUpdate
    /\ calls = <<>>
    /\ client = "none"
    /\ FetchIdle
    /\ RankIdle

\* the mongo_connection a pipeline may be built with: none, an empty string, a
\* connection string
MongoConnections == {None, "", "mongodb://localhost:27017/"}

\* "self.mongo = MongoDBSync(mongo_connection) if mongo_connection else None"
HasMongo(mongo_connection) == Truthy(mongo_connection)

\* The program is started (again, after it ended or died of an exception): a
\* new pipeline is built, its MongoDBSync (when it has one) has no client yet,
\* run is called and calls fetch_articles. The main block gives a connection
\* string and passes sync_to_mongo=True; the defaults are None and False.
MainStart ==
    /\ pc \in {"main_idle", "rank_returned", "run_raised"}
    /\ runs < MaxRuns
    /\ runs' = runs + 1
    /\ sync_to_mongo' \in BOOLEAN
    /\ \E mongo_connection \in MongoConnections : mongo' = HasMongo(mongo_connection)
    /\ pc' = "fetch_loop"
    /\ i' = 0 /\ all_articles' = <<>> /\ seen_urls' = {}
    /\ requests' = <<>> /\ responses' = <<>> /\ fetched' = <<>>
    /\ printed' = <<FetchingLine>>
    /\ df' = <<>>
    /\ synced' = 0 /\ new_count' = 0 /\ updated_count' = 0 /\ last_update' = NoUpdate
    /\ client' = "none"
    /\ top_n' = 0
    /\ top_urls' = [positive |-> <<>>, negative |-> <<>>]
    /\ calls' = <<>>
    /\ UNCHANGED <<store, env_vars>>

\* "if sync_to_mongo and self.mongo" is false: df_final is returned
RunSkipSync ==
    /\ pc = "run_prepared"
    /\ ~(sync_to_mongo /\ mongo)
    /\ pc' = "run_returned"
    /\ UNCHANGED <<fetch_vars, df, sync_vars, env_vars, rank_vars, run_vars>>

\* "self.mongo.connect()": the client is made, or MongoClient raises (a
\* connection string it cannot use) and the exception leaves run.
RunConnect ==
    /\ pc = "run_prepared"
    /\ sync_to_mongo /\ mongo
    /\ \/ client' = "open" /\ pc' = "sync_call"
       \/ client' = client /\ pc' = "run_raised"
    /\ UNCHANGED <<fetch_vars, df, store, synced, new_count, updated_count, last_update,
                   calls, env_vars, rank_vars, run_vars>>

\* update_one raises (no server to select, a write error): the exception leaves
\* sync_articles and run; close is not reached.
SyncUpsertRaises ==
    /\ pc = "sync_loop"
    /\ synced < Len(df)
    /\ pc' = "run_raised"
    /\ UNCHANGED <<fetch_vars, df, sync_vars, env_vars, rank_vars, run_vars>>

\* "self.mongo.close()" and "return df_final"
RunClose ==
    /\ pc = "sync_returned"
    /\ client' = (IF client = "none" THEN "none" ELSE "closed")
    /\ pc' = "run_returned"
    /\ UNCHANGED <<fetch_vars, df, store, synced, new_count, updated_count, last_update,
                   calls, env_vars, rank_vars, run_vars>>

\* "top_urls = pipeline.get_top_sentiment_urls(df_result)": df is given, so run
\* is not called again, and top_n is the default.
MainRank ==
    /\ pc = "run_returned"
    /\ top_n' = DefaultTopN
    /\ pc' = "rank_call"
    /\ UNCHANGED <<fetch_vars, df, sync_vars, env_vars, top_urls, run_vars>>

Next ==
    \/ MainStart \/ FetchVector \/ FetchReturn \/ RunReturnEmpty \/ RunDataFrame \/ RunAnalyze
    \/ RunPrepare \/ RunSkipSync \/ RunConnect \/ SyncBegin \/ SyncUpsert
    \/ SyncUpsertRaises \/ SyncReturn \/ RunClose \/ MainRank
    \/ GetTopOfNothing \/ GetTopSentimentUrls

Spec == InitMain /\ [][Next]_vars

----------------------------------------------------------------------------
(* Properties of fetch_articles (SpecFetch) *)

UrlsOf(arts) == {Get(arts[k], "url") : k \in 1..Len(arts)}

NoDuplicateUrl(arts) ==
    \A j, k \in 1..Len(arts) : j # k => Get(arts[j], "url") # Get(arts[k], "url")

\* The code's own notion of a failed vector: one of its two except branches ran
\* (the request raised, the body was no JSON, or the handling of the body raised).
VectorFailed(resp) ==
    \/ resp.kind # "json"
    \/ \E p \in 1..Len(ArticlesOf(resp)) : ~IsDict(ArticlesOf(resp)[p])

\* the request itself failed, or its body was no JSON
FetchFailed(resp) == resp.kind # "json"

\* The articles of the vectors that did not fail, vector after vector, each in the
\* order the endpoint returned them (a failed vector contributes nothing).
RECURSIVE Contributions(_)
Contributions(rs) ==
    IF rs = <<>> THEN <<>>
    ELSE (IF VectorFailed(Head(rs)) THEN <<>> ELSE ArticlesOf(Head(rs)))
             \o Contributions(Tail(rs))

\* Of a list of articles, those with a non-empty url that no earlier one carries.
RECURSIVE FirstSeenWins(_)
FirstSeenWins(s) ==
    IF s = <<>> THEN <<>>
    ELSE LET front == SubSeq(s, 1, Len(s) - 1)
             last == s[Len(s)]
         IN  IF /\ Truthy(Get(last, "url"))
                /\ \A q \in 1..Len(front) : Get(front[q], "url") # Get(last, "url")
             THEN Append(FirstSeenWins(front), last)
             ELSE FirstSeenWins(front)

\* C1: the merged list never holds two articles with the same url, after every
\* iteration of the vector loop and in the list fetch_articles returns, whatever
\* the vectors answered.
C1_UniqueUrls ==
    /\ NoDuplicateUrl(all_articles)
    /\ NoDuplicateUrl(fetched)
    /\ seen_urls = UrlsOf(all_articles)

\* C1 witness: the endpoint returned the same url twice, in two vectors, and the
\* returned list holds it once.
C1_Witness ==
    /\ pc = "run_fetched"
    /\ \E j, k \in 1..Len(responses) :
         /\ j < k
         /\ ~VectorFailed(responses[j]) /\ ~VectorFailed(responses[k])
         /\ "a" \in UrlsOf(ArticlesOf(responses[j]))
         /\ "a" \in UrlsOf(ArticlesOf(responses[k]))
    /\ Cardinality({k \in 1..Len(fetched) : fetched[k].url = "a"}) = 1

\* the articles of a list whose url is one of urls, in the list's order
WithUrlIn(arts, urls) == SelectSeq(arts, LAMBDA a : Get(a, "url") \in urls)

\* C2: first-seen-wins merge. For every non-empty url that a successful vector
\* carries, the returned list holds the article of the earliest successful vector
\* (and earliest position in it) with that url, whole, and these articles stand in
\* the returned list by vector index and then by position in the vector.
C2_FirstSeenWins ==
    pc = "run_fetched" =>
        LET expected == FirstSeenWins(Contributions(responses))
        IN  WithUrlIn(fetched, UrlsOf(expected)) = expected

\* C2 does hold of the runs in which no vector fails part-way through its
\* articles, and there the returned list is exactly the first-seen-wins merge.
C2_HoldsWithoutPartialFailure ==
    (/\ pc = "run_fetched"
     /\ \A k \in 1..Len(responses) :
          VectorFailed(responses[k]) => FetchFailed(responses[k]))
        => fetched = FirstSeenWins(Contributions(responses))

\* C3: a vector whose request fails (timeout, connection error, non-2xx) or whose
\* body is no JSON does not stop the run: every vector is still requested, in order,
\* fetch_articles returns, and its list holds every url that a vector handled without
\* failure carries, those of the vectors before the failed one and those after it.
C3_FailureIsolation ==
    /\ Len(requests) = i /\ Len(responses) = i
    /\ pc = "run_fetched" =>
         /\ requests = get_query_list
         /\ \A k \in 1..Len(responses) :
              ~VectorFailed(responses[k]) =>
                  \A p \in 1..Len(ArticlesOf(responses[k])) :
                      LET url == Get(ArticlesOf(responses[k])[p], "url")
                      IN  Truthy(url) => url \in UrlsOf(fetched)

\* C3 witness: the second vector failed, the first and the third each brought an
\* article, and both are in the returned list.
C3_Witness ==
    /\ pc = "run_fetched"
    /\ Len(responses) = NumVectors
    /\ FetchFailed(responses[2])
    /\ ArticlesOf(responses[1]) = <<ArtA1>>
    /\ ArticlesOf(responses[3]) = <<ArtB>>
    /\ fetched = <<ArtA1, ArtB>>

\* the articles the vectors that did not fail returned
GoodArticles(rs) == {Contributions(rs)[k] : k \in 1..Len(Contributions(rs))}

\* nothing in the merged list or the seen-set comes from a failed vector
OnlyFromGoodVectors ==
    /\ \A n \in 1..Len(all_articles) : all_articles[n] \in GoodArticles(responses)
    /\ seen_urls \subseteq UrlsOf(Contributions(responses))
    /\ \A n \in 1..Len(fetched) : fetched[n] \in GoodArticles(responses)

\* C16: a failed vector contributes an empty article list. Whenever the
\* handling of a vector ended in failure (the request raised, the status was
\* not 2xx, the body was no JSON, or an item of the articles list was no article
\* object, so that the handling raised part-way), no article of that vector is
\* in the merged list, during the loop and in the list returned, and no url of
\* it is in the seen-set: both hold only what the vectors that did not fail
\* returned.
C16_FailedVectorContributesNothing == OnlyFromGoodVectors

\* C16 does hold of the vectors that fail before their articles are handled:
\* a failed request and a body that is no JSON contribute nothing.
C16_HoldsOfFetchFailures ==
    (\A k \in 1..Len(responses) : VectorFailed(responses[k]) => FetchFailed(responses[k]))
        => OnlyFromGoodVectors

FailedVectors(rs) == {k \in 1..Len(rs) : VectorFailed(rs[k])}

\* some line of the output states that n vectors failed
ReportsFailureCount(lines, n) ==
    \E k \in 1..Len(lines) : lines[k].msg = "failed_vectors" /\ lines[k].count = n

\* the lines that tell of the failure of one vector
FailureLines(lines) ==
    {k \in 1..Len(lines) : lines[k].msg \in {"failed", "api_error"}}

\* C18: failed vectors are counted and reported. When fetch_articles has
\* returned and some vectors failed to fetch (a failed request, a non-JSON
\* error body), the run goes on with the deduplicated union of the other
\* vectors' articles, and the number of failed vectors is reported: 1 when one
\* of the three vectors returned a non-JSON body and the other two succeeded.
C18_FailedVectorsCounted ==
    (/\ pc = "run_fetched"
     /\ FailedVectors(responses) # {}
     /\ \A k \in FailedVectors(responses) : FetchFailed(responses[k]))
        => /\ fetched = FirstSeenWins(Contributions(responses))
           /\ ReportsFailureCount(printed, Cardinality(FailedVectors(responses)))

\* What does hold: every failed vector is told of by one line of its own, which
\* names the vector, and the run goes on with the union of the others; no line
\* gives a count of them.
C18_EachFailureIsLogged ==
    pc = "run_fetched" =>
        /\ Cardinality(FailureLines(printed)) = Cardinality(FailedVectors(responses))
        /\ \A k \in FailedVectors(responses) :
             \E l \in FailureLines(printed) : printed[l].vector = k
        /\ (\A k \in FailedVectors(responses) : FetchFailed(responses[k]))
             => fetched = FirstSeenWins(Contributions(responses))

----------------------------------------------------------------------------
(* Properties of sync_articles (SpecSync) *)

Returned(call) == call.result # <<>>

\* C4: idempotence. When sync_articles is called twice in a row with the same
\* records, of pairwise distinct urls, the second call leaves the collection as
\* the first call left it and returns new_count = 0 and updated_count = the
\* number of records, whatever the collection held before the first call.
C4_Idempotent ==
    \A j \in 1..Len(calls) :
        (j > 1 /\ Returned(calls[j]) /\ NoDuplicateUrl(df)) =>
            /\ calls[j].after = calls[j - 1].after
            /\ calls[j].result = <<0, Len(df)>>

\* C4 witness: two calls have returned; the first one inserted a document and
\* changed a stored one, the second one returned (0, 2).
C4_Witness ==
    /\ Len(calls) = 2
    /\ Returned(calls[2])
    /\ Len(df) = 2 /\ NoDuplicateUrl(df)
    /\ calls[1].result = <<1, 1>>
    /\ calls[1].before # <<>>
    /\ \E n \in 1..Len(calls[1].before) : calls[1].after[n] # calls[1].before[n]
    /\ calls[2].result = <<0, 2>>

\* C5: an upsert onto a stored document of the record's url is a full
\* replacement. After an update_one that matched a stored document, that
\* document has exactly the fields and values of the record: no field of the
\* document it replaced survives.
C5_FullReplace ==
    last_update.matched # NoDocument =>
        store[last_update.id] = last_update.record

\* What the code does in its place ($set is a patch): after an update_one that
\* matched a stored document, that document holds every field of the record
\* with the record's value, and every field it had that the record lacks, with
\* the value it had.
C5_SetMerges ==
    last_update.matched # NoDocument =>
        LET was == last_update.matched
            record == last_update.record
            now == store[last_update.id]
        IN  /\ DOMAIN now = DOMAIN was \cup DOMAIN record
            /\ \A f \in DOMAIN record : now[f] = record[f]
            /\ \A f \in DOMAIN was \ DOMAIN record : now[f] = was[f]

\* The case in which the two differ: the record was upserted onto a stored
\* document of its url that has a field the record lacks.
C5_Witness ==
    /\ last_update.matched # NoDocument
    /\ "summary" \in DOMAIN last_update.matched
    /\ "summary" \notin DOMAIN last_update.record
    /\ last_update.matched.url = last_update.record.url

\* C6: the counters add up to the number of records processed, at every point
\* of the loop and in the pair returned, and the new_count returned is the number
\* of urls that the collection lacked before the call and holds after it.
C6_Counts ==
    /\ pc = "sync_loop" => new_count + updated_count = synced
    /\ \A j \in 1..Len(calls) :
         Returned(calls[j]) =>
            /\ calls[j].result[1] + calls[j].result[2] = Len(df)
            /\ calls[j].result[1] =
                 Cardinality(UrlsOf(calls[j].after) \ UrlsOf(calls[j].before))

\* C6 witness: a call returned (1, 1): one record was inserted, one updated.
C6_Witness ==
    /\ Len(calls) >= 1
    /\ calls[1].result = <<1, 1>>
    /\ Len(calls[1].after) = Len(calls[1].before) + 1

----------------------------------------------------------------------------
(* Properties of the scoring stage (SpecScore) *)

\* C9: the label is a function of the score alone, with inclusive thresholds:
\* Positive from 0.05 up, Negative from -0.05 down, Neutral between them (0.05
\* is Positive, -0.05 Negative, 0.0 Neutral); and every row analyze_dataframe
\* returns carries the label of its own score.
C9_LabelOfScore ==
    /\ \A s \in ScoreSamples :
         /\ s >= PosThreshold => get_sentiment_label(s) = "Positive"
         /\ s <= NegThreshold => get_sentiment_label(s) = "Negative"
         /\ (NegThreshold < s /\ s < PosThreshold) => get_sentiment_label(s) = "Neutral"
    /\ pc = "run_analyzed" =>
         \A n \in 1..Len(df) :
             LET s == df[n].sentiment_score
                 label == df[n].sentiment_label
             IN  /\ s >= PosThreshold => label = "Positive"
                 /\ s <= NegThreshold => label = "Negative"
                 /\ (NegThreshold < s /\ s < PosThreshold) => label = "Neutral"

\* C9 witness: analyze_dataframe returned rows that score exactly 0.05, exactly
\* -0.05 and 0.0, labelled Positive, Negative and Neutral.
C9_Witness ==
    /\ pc = "run_analyzed"
    /\ Len(df) = 3
    /\ df[1].sentiment_score = PosThreshold /\ df[1].sentiment_label = "Positive"
    /\ df[2].sentiment_score = NegThreshold /\ df[2].sentiment_label = "Negative"
    /\ df[3].sentiment_score = 0 /\ df[3].sentiment_label = "Neutral"

AbsentTitle(article) == Get(article, "title") \in {None, ""}

\* C10: an absent or empty headline scores 0. When the scoring stage has run on
\* a merged list in which some article has a headline, it did not raise, and
\* every article whose title is "", None or missing has sentiment_score 0 and
\* label Neutral.
C10_AbsentTitleScoresZero ==
    (/\ pc \in {"run_analyzed", "run_raised"}
     /\ \E n \in 1..Len(fetched) : Get(fetched[n], "title") \in {"t1", "t2"})
        => /\ pc = "run_analyzed"
           /\ \A n \in 1..Len(fetched) :
                  AbsentTitle(fetched[n]) =>
                      /\ df[n].sentiment_score = 0
                      /\ df[n].sentiment_label = "Neutral"

\* C10 does hold of the merged lists in which every article has a title key,
\* and with pandas 3 a title that is not None: a title that is "" or None scores
\* 0 and is Neutral, and nothing is raised.
C10_HoldsWhenNoTitleIsMissing ==
    (/\ pc \in {"run_analyzed", "run_raised"}
     /\ \A n \in 1..Len(fetched) : "title" \in DOMAIN fetched[n]
     /\ build.pandas3 => \A n \in 1..Len(fetched) : fetched[n].title # None)
        => /\ pc = "run_analyzed"
           /\ \A n \in 1..Len(fetched) :
                  AbsentTitle(fetched[n]) =>
                      /\ df[n].sentiment_score = 0
                      /\ df[n].sentiment_label = "Neutral"

\* C17: every score the pipeline gives an article lies between -1.0 and 1.0,
\* whatever its title: the analyzer's compound score for a headline, 0 for a
\* title that is empty or None.
C17_ScoreInRange ==
    pc = "run_analyzed" =>
        \A n \in 1..Len(df) :
            /\ df[n].sentiment_score >= -MaxCompound
            /\ df[n].sentiment_score <= MaxCompound
            /\ df[n].title \in {"t1", "t2"} => df[n].sentiment_score = vader[df[n].title]

\* C17 witness: three articles were scored, one at 1.0, one at -1.0, and one
\* with an empty title at 0.
C17_Witness ==
    /\ pc = "run_analyzed"
    /\ Len(df) = 3
    /\ df[1].sentiment_score = MaxCompound
    /\ df[2].sentiment_score = -MaxCompound
    /\ df[3].title = "" /\ df[3].sentiment_score = 0

----------------------------------------------------------------------------
(* Properties of get_top_sentiment_urls (SpecRank) *)

Ranked == pc = "rank_returned" /\ ~NothingToRank(df)

\* the row of the frame that has this url (the urls of a frame are distinct)
RowOf(url) == CHOOSE n \in 1..Len(df) : df[n].url = url

ScoreAt(urls, a) == ScoreOf(df[RowOf(urls[a])])

Smaller(a, b) == IF a <= b THEN a ELSE b

\* score a is at least as far as score b in the direction asked for: at most b
\* for the most negative, at least b for the most positive
AsExtreme(a, b, ascending) == (ascending /\ a <= b) \/ (~ascending /\ a >= b)

\* urls names min(top_n, count) different rows, and no row left out has a score
\* that would stand strictly before the score of a row taken
IsSelection(urls, ascending) ==
    /\ Len(urls) = Smaller(top_n, Len(df))
    /\ \A a \in 1..Len(urls) : \E n \in 1..Len(df) : df[n].url = urls[a]
    /\ \A a, b \in 1..Len(urls) : a # b => urls[a] # urls[b]
    /\ \A a \in 1..Len(urls) :
         \A n \in 1..Len(df) :
             (\A b \in 1..Len(urls) : urls[b] # df[n].url) =>
                 AsExtreme(ScoreAt(urls, a), ScoreOf(df[n]), ascending)

\* C7: for every frame of scored records and every N >= 1, 'positive' holds the
\* urls of min(N, count) records whose score is at least that of every record
\* not selected, 'negative' those of min(N, count) records whose score is at most
\* that of every record not selected; with fewer than N records each list holds
\* them all.
C7_TopNSelection ==
    (Ranked /\ top_n >= 1) =>
        /\ IsSelection(top_urls.positive, FALSE)
        /\ IsSelection(top_urls.negative, TRUE)

\* C7 witness: the two highest and the two lowest of four records were taken.
C7_Witness ==
    /\ Ranked
    /\ top_n = 2
    /\ Len(df) = 4
    /\ ScoreOf(df[1]) = 0 /\ ScoreOf(df[2]) = NegThreshold
    /\ ScoreOf(df[3]) = PosThreshold /\ ScoreOf(df[4]) = 0
    /\ top_urls = [positive |-> <<"u3", "u1">>, negative |-> <<"u2", "u1">>]

\* the scores of the list stand in the order of the sort
IsSorted(urls, ascending) ==
    \A a, b \in 1..Len(urls) :
        a < b => AsExtreme(ScoreAt(urls, a), ScoreAt(urls, b), ascending)

\* of two records of equal score, the later one is taken only if the earlier is
EarlierTieTakenFirst(urls) ==
    \A m, n \in 1..Len(df) :
        (/\ m < n
         /\ ScoreOf(df[m]) = ScoreOf(df[n])
         /\ \E b \in 1..Len(urls) : urls[b] = df[n].url)
            => \E a \in 1..Len(urls) : urls[a] = df[m].url

\* of two records of equal score in the list, the earlier one of the frame stands
\* first
TiesInInputOrder(urls) ==
    \A a, b \in 1..Len(urls) :
        (a < b /\ ScoreAt(urls, a) = ScoreAt(urls, b)) => RowOf(urls[a]) < RowOf(urls[b])

\* C8 as claimed: 'positive' is ordered by score descending and 'negative'
\* ascending, each of length at most N, and of records with equal score the
\* earlier one of the input is selected first and appears first in the list.
C8_SortedStable ==
    Ranked =>
        /\ IsSorted(top_urls.positive, FALSE) /\ IsSorted(top_urls.negative, TRUE)
        /\ Len(top_urls.positive) <= top_n /\ Len(top_urls.negative) <= top_n
        /\ EarlierTieTakenFirst(top_urls.positive)
        /\ EarlierTieTakenFirst(top_urls.negative)
        /\ TiesInInputOrder(top_urls.positive)
        /\ TiesInInputOrder(top_urls.negative)

\* C8 as the code has it: the same, but equal scores are sure to appear in input
\* order only when N is less than the number of records; when all records are
\* returned the lists come from an unstable sort.
C8_SortedStableBelowCount ==
    Ranked =>
        /\ IsSorted(top_urls.positive, FALSE) /\ IsSorted(top_urls.negative, TRUE)
        /\ Len(top_urls.positive) <= top_n /\ Len(top_urls.negative) <= top_n
        /\ EarlierTieTakenFirst(top_urls.positive)
        /\ EarlierTieTakenFirst(top_urls.negative)
        /\ top_n < Len(df) =>
             /\ TiesInInputOrder(top_urls.positive)
             /\ TiesInInputOrder(top_urls.negative)

\* C8 witness: two of three records of one score were asked for, and the first
\* two came, in input order, in both lists.
C8_Witness ==
    /\ Ranked
    /\ top_n = 2
    /\ Len(df) = 3
    /\ \A n \in 1..Len(df) : ScoreOf(df[n]) = 0
    /\ top_urls = [positive |-> <<"u1", "u2">>, negative |-> <<"u1", "u2">>]

----------------------------------------------------------------------------
(* Properties of the normalization stage (SpecNormalize) *)

Normalized == pc \in {"run_prepared", "run_raised"}

\* what the spec calls the exact format: YYYYMMDDThhmmssZ, sixteen characters
ExactShape(t) ==
    /\ t \notin {None, NaN, ListValue}
    /\ Len(t) = 16
    /\ \A k \in (1..8) \cup (10..15) : At(t, k) \in AsciiDigitSet
    /\ At(t, 9) = "T"
    /\ At(t, 16) = "Z"

\* the moment a string of the exact format names, when it names one
NamesMoment(t) ==
    LET y == Number(SubSeq(t, 1, 4))
        mo == Number(SubSeq(t, 5, 6))
        d == Number(SubSeq(t, 7, 8))
    IN  /\ y >= 1 /\ mo \in 1..12 /\ d >= 1 /\ d <= DaysIn(y, mo)
        /\ Number(SubSeq(t, 10, 11)) <= 23
        /\ Number(SubSeq(t, 12, 13)) <= 59
        /\ Number(SubSeq(t, 14, 15)) <= 59

MomentOf(t) ==
    SubSeq(t, 1, 4) \o "-" \o SubSeq(t, 5, 6) \o "-" \o SubSeq(t, 7, 8) \o " "
        \o SubSeq(t, 10, 11) \o ":" \o SubSeq(t, 12, 13) \o ":" \o SubSeq(t, 14, 15)
        \o "+00:00"

Absent(v) == v \in {None, NaN, NaT}

\* C11: parse_gdelt_time never raises, so prepare_dataframe is never aborted by
\* a seendate; a seendate of the exact form YYYYMMDDThhmmssZ gives its UTC
\* timestamp, and every other seendate ("", None, a missing one, any other
\* text or value) gives the absent marker.
C11_ParseGdeltTime ==
    Normalized =>
        /\ pc = "run_prepared"
        /\ \A n \in 1..Len(fetched) :
             LET t == Get(fetched[n], "seendate") IN
             /\ (ExactShape(t) /\ NamesMoment(t)) => df[n].seendate_dt = MomentOf(t)
             /\ ~ExactShape(t) => Absent(df[n].seendate_dt)

\* C11 does hold in part: when no seendate is a JSON array nothing is raised,
\* a seendate of the exact form gives its timestamp, and "", None, a missing
\* seendate and text the expression does not match give the absent marker.
C11_HoldsOfStringsInPart ==
    (Normalized /\ \A n \in 1..Len(fetched) : Get(fetched[n], "seendate") # ListValue)
        => /\ pc = "run_prepared"
           /\ \A n \in 1..Len(fetched) :
                LET t == Get(fetched[n], "seendate") IN
                /\ (ExactShape(t) /\ NamesMoment(t)) => df[n].seendate_dt = MomentOf(t)
                /\ (t \in {None, "", "garbage"}) => Absent(df[n].seendate_dt)

\* the fields of the schema that are copied from the fetched object
CopiedFields == DesiredSet \ {"seendate_dt", "sentiment_score", "sentiment_label"}

\* C12: fixed total schema. Every record prepare_dataframe outputs has exactly
\* the eleven fields of the schema, whatever fields the fetched objects carry:
\* a field the fetched object has is there with its value, a field it lacks is
\* there with the absent marker, and a field outside the schema is not there.
C12_FixedSchema ==
    pc = "run_prepared" =>
        /\ Len(df) = Len(fetched)
        /\ \A n \in 1..Len(df) :
             /\ DOMAIN df[n] = DesiredSet
             /\ Cardinality(DOMAIN df[n]) = 11
             /\ \A c \in CopiedFields :
                  IF c \in DOMAIN fetched[n] /\ ~Absent(fetched[n][c])
                  THEN df[n][c] = fetched[n][c]
                  ELSE Absent(df[n][c])
             /\ "seendate" \notin DOMAIN fetched[n] => Absent(df[n].seendate_dt)

\* C12 witness: of two articles the first has a domain and the second a field
\* outside the schema and no seendate; both records have the eleven fields, the
\* second one an absent domain and an absent seendate.
C12_Witness ==
    /\ pc = "run_prepared"
    /\ Len(fetched) = 2
    /\ "domain" \in DOMAIN fetched[1]
    /\ "tone" \in DOMAIN fetched[2] /\ "seendate" \notin DOMAIN fetched[2]
    /\ Get(fetched[1], "seendate") = "20251128T101500Z"
    /\ df[1].seendate_dt = "2025-11-28 10:15:00+00:00"
    /\ DOMAIN df[2] = DesiredSet
    /\ Absent(df[2].domain) /\ Absent(df[2].seendate) /\ Absent(df[2].seendate_dt)

----------------------------------------------------------------------------
(* Properties of the whole program (Spec) *)

NoTopUrls == [positive |-> <<>>, negative |-> <<>>]

\* fetch_articles was called in this run and has returned
Fetched == pc \notin {"main_idle", "fetch_loop"}

\* every vector failed or returned no article
EmptyInput ==
    /\ Len(responses) = NumVectors
    /\ \A k \in 1..NumVectors :
         VectorFailed(responses[k]) \/ ArticlesOf(responses[k]) = <<>>

\* the run goes the way of an empty run: an empty list is fetched, run returns
\* an empty DataFrame without a connection or an upsert, and the ranking of
\* its result is two empty lists
GoesAsEmptyRun ==
    /\ fetched = <<>>
    /\ df = <<>>
    /\ pc \in {"run_fetched", "run_returned", "rank_call", "rank_returned"}
    /\ client = "none"
    /\ synced = 0 /\ last_update = NoUpdate
    /\ top_urls = NoTopUrls

\* C13: an empty run is a normal terminal state. When every vector fails or
\* returns no article, fetch_articles returns an empty list, run returns
\* normally, get_top_sentiment_urls on its result returns two empty lists, no
\* upsert is issued and no connection is made or fails.
C13_EmptyRun == (Fetched /\ EmptyInput) => GoesAsEmptyRun

\* C13 does hold of the runs in which no vector fails part-way through its
\* articles.
C13_HoldsWithoutPartialFailure ==
    (/\ Fetched /\ EmptyInput
     /\ \A k \in 1..Len(responses) :
          VectorFailed(responses[k]) => FetchFailed(responses[k]))
        => GoesAsEmptyRun

\* the frame is one prepare_dataframe returned: fetch, scoring and normalization
\* have succeeded
Prepared(frame) == frame # <<>> /\ \A n \in 1..Len(frame) : DOMAIN frame[n] = DesiredSet

\* the run ended in an exception of the persistence stage (connect or an upsert)
PersistenceFailed == pc = "run_raised" /\ Prepared(df)

Min(a, b) == IF a <= b THEN a ELSE b

\* urls is a list of count different urls of the frame
UrlsOfFrame(urls, frame, count) ==
    /\ Len(urls) = count
    /\ \A a \in 1..Len(urls) : \E n \in 1..Len(frame) : frame[n].url = urls[a]
    /\ \A a, b \in 1..Len(urls) : a # b => urls[a] # urls[b]

\* the RankedSelection of the run's records has been delivered
RankingDelivered ==
    /\ UrlsOfFrame(top_urls.positive, df, Min(DefaultTopN, Len(df)))
    /\ UrlsOfFrame(top_urls.negative, df, Min(DefaultTopN, Len(df)))

\* C14: a persistence failure is fatal to the persistence stage only. When
\* connecting to the store or an upsert fails in a run with sync_to_mongo, after
\* fetch, scoring and normalization succeeded, the program still delivers the
\* top positive and negative urls of that run's records: no run ends in a
\* persistence failure without them.
C14_PersistenceFailureKeepsRanking == PersistenceFailed => RankingDelivered

\* What does hold: a run whose persistence stage did not fail, or was skipped,
\* delivers the ranking of its records.
C14_RankingDeliveredAfterSync ==
    (pc = "rank_returned" /\ df # <<>>) => (Prepared(df) /\ RankingDelivered)

\* C15: no deletion. No step of any run, whatever was fetched and however the
\* run ends (empty, raised, synced), removes a document from the store or
\* changes its url: every url stored stays stored in every later state, so
\* after every later run.
C15_NoDeletion ==
    [][/\ Len(store') >= Len(store)
       /\ \A n \in 1..Len(store) : Get(store'[n], "url") = Get(store[n], "url")
       /\ UrlsOf(store) \subseteq UrlsOf(store')]_vars

\* C15 witness: a first run stored url "b", which no first store holds; the
\* second run, an empty one without a sync, has ended and the store still
\* holds it.
C15_Witness ==
    /\ runs = 2
    /\ pc = "rank_returned"
    /\ fetched = <<>>
    /\ calls = <<>>
    /\ "b" \in UrlsOf(store)

\* the requests sent so far are the first queries of the list, one each, in the
\* order of declaration, and each has been answered and handled
RequestsInOrder ==
    /\ Len(requests) = i
    /\ Len(requests) <= NumVectors
    /\ \A k \in 1..Len(requests) : requests[k] = get_query_list[k]
    /\ Len(responses) = Len(requests)
    /\ Fetched => requests = get_query_list

\* a step that sends a request sends the one for the next vector, after the
\* vector before it was handled, and handles its answer
RequestStep ==
    requests' # requests /\ pc = "fetch_loop" =>
        /\ Len(responses) = Len(requests)
        /\ requests' = Append(requests, get_query_list[Len(requests) + 1])
        /\ Len(responses') = Len(requests')

\* a step that issues an upsert issues the one for the next record, and
\* sync_articles returns when every record has had its one upsert
UpsertStep ==
    /\ (pc = "sync_loop" /\ synced' # synced) =>
          /\ synced' = synced + 1
          /\ last_update'.record = df[synced + 1]
          /\ df' = df
    /\ (pc = "sync_loop" /\ pc' = "sync_returned") =>
          /\ synced = Len(df)
          /\ new_count + updated_count = Len(df)

\* C19: strictly sequential scheduling. In each run fetch_articles sends one
\* request per query vector, in the order crypto, macro, geopolitics, none
\* twice (no retry), each only after the vector before has completed or
\* failed; sync_articles issues one upsert per record, in record order, each
\* after the one before has returned.
C19_Sequential == []RequestsInOrder /\ [][RequestStep /\ UpsertStep]_vars

\* C19 witness: a run in which a vector failed has sent its three requests and
\* sync_articles has returned after the upserts of two records.
C19_Witness ==
    /\ pc = "sync_returned"
    /\ requests = get_query_list
    /\ FailedVectors(responses) # {}
    /\ Len(df) = 2 /\ synced = 2
    /\ last_update.record = df[2]

\* run has finished: it returned, or an exception left it
RunFinished == pc \in {"run_returned", "run_raised", "rank_call", "rank_returned"}

\* C20: the connection lifecycle is scoped to the sync. Every store connection
\* that run opened is closed by the time run finishes, whether sync_articles
\* returned normally or an upsert raised: no run ends with an open connection.
C20_ConnectionClosed == RunFinished => client # "open"

\* What does hold: a run that returns has closed the connection it opened.
C20_ClosedWhenRunReturns ==
    pc \in {"run_returned", "rank_call", "rank_returned"} =>
        /\ client # "open"
        /\ (sync_to_mongo /\ mongo /\ df # <<>>) => client = "closed"

\* the urls of the two lists of a ranking
TopUrlSet == {top_urls.positive[a] : a \in 1..Len(top_urls.positive)}
                 \cup {top_urls.negative[a] : a \in 1..Len(top_urls.negative)}

\* the rows of the run's result, and the stored documents, of a url
RowsOf(url) == {n \in 1..Len(df) : df[n].url = url}
StoredOf(url) == {k \in 1..Len(store) : Get(store[k], "url") = url}

\* the program is through: run was called with sync_to_mongo, it returned, and
\* the lists were computed
SyncedAndRanked == pc = "rank_returned" /\ sync_to_mongo

\* every url of the two lists is in the store, with the score and the label
\* of its row
RankedAreStored ==
    \A url \in TopUrlSet :
        /\ StoredOf(url) # {}
        /\ \A k \in StoredOf(url), n \in RowsOf(url) :
               /\ Get(store[k], "sentiment_score") = df[n].sentiment_score
               /\ Get(store[k], "sentiment_label") = df[n].sentiment_label

\* C21: Ranker and PersistenceSync consume the same normalized set. After a run
\* with sync_to_mongo enabled completed without error, every url of the
\* 'positive' and 'negative' lists computed from that run's result is present
\* in the store, and its stored sentiment_score and sentiment_label equal
\* those of the ranked record.
C21_RankedUrlsStored == SyncedAndRanked => RankedAreStored

\* What holds instead: the same, of the runs of a pipeline that was built with
\* a connection string. A pipeline built without one skips the sync, whatever
\* sync_to_mongo is, and returns without error.
C21_RankedUrlsStoredWithConnection == (SyncedAndRanked /\ mongo) => RankedAreStored

\* The case: the store had a document of url "a" with another score and a
\* field of its own; the run scored "a" anew, synced and ranked it, and a
\* second url with it.
C21_Witness ==
    /\ SyncedAndRanked
    /\ mongo
    /\ client = "closed"
    /\ {"a", "b"} \subseteq TopUrlSet
    /\ \E k \in StoredOf("a") :
           /\ "summary" \in DOMAIN store[k]
           /\ store[k].sentiment_score # DocAWithSummary.sentiment_score

\* an article, record or document has a url, and it is neither None nor ""
HasUsableUrl(d) == "url" \in DOMAIN d /\ d.url # None /\ d.url # ""

AllUsable(ds) == \A k \in 1..Len(ds) : IsDict(ds[k]) /\ HasUsableUrl(ds[k])

\* how many of a vector's articles have a url to be kept under
UsableIn(arts) == Cardinality({k \in 1..Len(arts) : IsDict(arts[k]) /\ HasUsableUrl(arts[k])})

\* the count of unique articles printed for a vector leaves out the articles
\* without a url
UniqueCountsLeaveOutUrlless ==
    \A l \in 1..Len(printed) :
        printed[l].msg = "found" =>
            printed[l].unique <= UsableIn(ArticlesOf(responses[printed[l].vector]))

\* C22: every article in the list returned by fetch_articles has a non-empty
\* url. An article whose url is missing, None or the empty string is dropped by
\* the merge, is never added to the seen-set and is not counted among the
\* vector's unique articles, so every record later upserted has a usable key.
C22_NonEmptyUrl ==
    /\ AllUsable(all_articles)
    /\ AllUsable(fetched)
    /\ seen_urls = {all_articles[k].url : k \in 1..Len(all_articles)}
    /\ UniqueCountsLeaveOutUrlless
    /\ AllUsable(df)
    /\ synced > 0 => HasUsableUrl(last_update.record)
    /\ AllUsable(store)

\* The case: a vector answered three articles without a url (none, None, ""),
\* none of them was counted or kept; another vector's articles were, and were
\* upserted.
C22_Witness ==
    /\ pc = "sync_returned"
    /\ \E n \in 1..Len(responses) :
           /\ ArticlesOf(responses[n]) = <<RunArtNoUrl, RunArtNoneUrl, RunArtEmptyUrl>>
           /\ \E l \in 1..Len(printed) :
                  /\ printed[l].msg = "found"
                  /\ printed[l].vector = n
                  /\ printed[l].articles = 3
                  /\ printed[l].unique = 0
    /\ Len(fetched) = 2
    /\ synced = 2

\* the urls of one list of a ranking
ListUrls(urls) == {urls[a] : a \in 1..Len(urls)}

\* the frame has two rows at least for every place of a list
EnoughToRank == Ranked /\ top_n >= 1 /\ Len(df) >= 2 * top_n

\* C23: when the normalized record set holds at least 2N records (with
\* pairwise distinct urls), the 'positive' and 'negative' lists returned by
\* get_top_sentiment_urls share no url, for every assignment of scores,
\* equal scores included.
C23_ListsShareNoUrl ==
    EnoughToRank => ListUrls(top_urls.positive) \cap ListUrls(top_urls.negative) = {}

\* What does hold: the lists share no url when no two rows have the same score.
C23_DisjointWhenScoresDiffer ==
    (/\ EnoughToRank
     /\ \A n, m \in 1..Len(df) : n # m => ScoreOf(df[n]) # ScoreOf(df[m]))
        => ListUrls(top_urls.positive) \cap ListUrls(top_urls.negative) = {}

=============================================================================
